---- MODULE Spec2Model ----
(***************************************************************************)
(* Model of the butterfly sample Tutorial03_Texturing                      *)
(* (src/src/Tutorial03_Texturing.cpp, class declared in                    *)
(* src/unnamed/part_000).                                                  *)
(*                                                                         *)
(* The sample is single threaded: the framework calls Initialize once and  *)
(* then Update, Render and WindowResize in any order.  Each of them is one *)
(* action.  Render records the device-context calls it makes, in order, in *)
(* cmdLog, so that the order of the calls inside one Render is a property  *)
(* of a state.                                                             *)
(*                                                                         *)
(* Numbers.  A float is modelled by an integer number of ticks that keeps  *)
(* the 24 bit mantissa of an IEEE single (RoundF); the exponent range is   *)
(* not modelled.  sin and cos are not evaluated: an angle is kept as the   *)
(* argument handed to them, a matrix product as the pair of its factors.   *)
(***************************************************************************)
EXTENDS Integers, Sequences, FiniteSets, TLC

(* ------------------------------ bounds --------------------------------- *)
\* the configured instance count m_InstanceCount ranges over 0..MaxInstances
MaxInstances == 2
\* number of Update calls explored
MaxUpdates == 2
\* number of Render calls explored
MaxRenders == 2

(* ------------------------- program constants --------------------------- *)
\* mantissa width of float, the type of m_PathTime
FloatMantBits == 24
\* kSpeed = 0.75f = kSpeedNum / kSpeedDen
kSpeedNum == 3
kSpeedDen == 4
\* kBobFreq = 0.80f = kBobFreqNum / kBobFreqDen
kBobFreqNum == 4
kBobFreqDen == 5
\* kWingFactor = 6.0f
kWingFactor == 6
\* DA.NumVertices of the background draw
SkyNumVertices == 3

(* ------------------------------ inputs --------------------------------- *)
RECURSIVE Pow2(_)
Pow2(n) == IF n = 0 THEN 1 ELSE 2 * Pow2(n - 1)

\* what InitInstanceData can draw for one instance: a spawn centre (distX,
\* distY, distZ) and a start phase (distPhase)
SeedSet == {[center |-> <<0, 0, 0>>, phase |-> 0], [center |-> <<5, -2, 7>>, phase |-> 1]}
\* what a draw issued while its constant buffer is mapped reads on the
\* backend the program runs on: the mapped view or the contents last released
BackendSet == {"view", "gpu"}
\* ElapsedTime values handed to Update, in ticks: a double holds both exactly,
\* a float only the first
ElapsedSet == {1, Pow2(FloatMantBits) + 1}
\* camera poses m_Camera.Update can produce from the input controller
ViewSet == {[rot |-> 0, pos |-> 0], [rot |-> 1, pos |-> 1]}
\* aspect ratios W / H of the swap chain and of WindowResize
AspectSet == {1, 2}

VARIABLES
    phase,              \* "constructed" until Initialize has run, then "initialized"
    m_InstanceCount,    \* Uint32 m_InstanceCount
    m_InstanceCenters,  \* std::vector<float3>
    m_InstancePhases,   \* std::vector<float>
    m_InstanceWorlds,   \* std::vector<float4x4>
    m_PathTime,         \* float m_PathTime
    m_Camera,           \* FirstPersonCamera: its view and its projection
    m_WorldViewProj,    \* float4x4 m_WorldViewProj
    m_VSConstants,      \* the dynamic buffer "VS constants"
    m_SkyCB,            \* the dynamic buffer "SkySphere CB"
    ctxState,           \* what is bound in m_pImmediateContext
    cmdLog,             \* device-context calls of the latest Render, in order
    genCalls,           \* calls of GenerateInstanceData so far
    worldsGen,          \* the call of GenerateInstanceData that filled m_InstanceWorlds
    updateCount,        \* calls of Update so far
    renderCount,        \* calls of Render so far
    elapsedSum,         \* exact sum of the ElapsedTime arguments so far
    lastOp,             \* the handler that ran last
    objects,            \* what each object pointer of the sample refers to
    shaderVars,         \* the resource bound to each shader variable
    initLog,            \* device and object calls of Initialize, in order
    backend,            \* the backend's reading of a draw from a mapped buffer
    kin,                \* a sample of the kinematic functions and its results
    mesh                \* the index fetch of one indexed draw of the mesh

vars == <<phase, m_InstanceCount, m_InstanceCenters, m_InstancePhases,
          m_InstanceWorlds, m_PathTime, m_Camera, m_WorldViewProj,
          m_VSConstants, m_SkyCB, ctxState, cmdLog, genCalls, worldsGen,
          updateCount, renderCount, elapsedSum, lastOp, objects, shaderVars,
          initLog, backend, kin, mesh>>

(* ------------------------------ floats --------------------------------- *)
RECURSIVE BitLen(_)
BitLen(n) == IF n = 0 THEN 0 ELSE 1 + BitLen(n \div 2)

\* n rounded to FloatMantBits significant bits, ties to even
RoundF(n) ==
    IF BitLen(n) <= FloatMantBits THEN n
    ELSE LET e    == BitLen(n) - FloatMantBits
             q    == n \div Pow2(e)
             r    == n % Pow2(e)
             half == Pow2(e - 1)
             up   == r > half \/ (r = half /\ q % 2 = 1)
         IN  (IF up THEN q + 1 ELSE q) * Pow2(e)

\* static_cast<float>(ElapsedTime)
ToFloat(d) == RoundF(d)

\* m_PathTime += static_cast<float>(ElapsedTime)
AdvancePathTime(t, d) == RoundF(t + ToFloat(d))

(* ----------------------------- matrices -------------------------------- *)
\* a default-constructed float4x4
NullMatrix == [view |-> [rot |-> -1, pos |-> -1], surf |-> -1, proj |-> -1]

\* m_Camera.GetViewMatrix() * SurfT * m_Camera.GetProjMatrix()
ViewProj(cam) == [view |-> cam.view, surf |-> 0, proj |-> cam.proj]

\* a * b
MatMul(a, b) == [l |-> a, r |-> b]

\* (ViewNoPos * m_Camera.GetProjMatrix()).Inverse()
\* with ViewNoPos the view matrix whose translation _41, _42, _43 is set to 0
InvRotProj(cam) == [rot |-> cam.view.rot, proj |-> cam.proj]

\* no sample of the kinematic functions taken; each field is empty or holds
\* one value
NoKin == [in |-> <<>>, world |-> <<>>, wing |-> <<>>, later |-> <<>>]

\* no indexed draw of the mesh issued: nothing requested, nothing fetched
NoMesh == [drawn |-> FALSE, request |-> 0, fetched |-> 0, index |-> <<>>,
           inBounds |-> TRUE]

(* ------------------------------ faults --------------------------------- *)
\* A failure of the device during one handler: the creation of the object a
\* pointer receives ("create", at the pointer) or a draw ("draw", at the
\* instance, -1 for the background).  The device signals it by throwing
\* ("throw") or by reporting the error and returning ("return"); ub is what a
\* call through a null pointer does.
NoFault == [kind |-> "none", at |-> "none", mode |-> "return", ub |-> "crash"]

(* ------------------------------ state ---------------------------------- *)
\* The object and the device context as one record s; every method below maps
\* the record before the call to the record after it.
Self ==
    [phase |-> phase, m_InstanceCount |-> m_InstanceCount,
     m_InstanceCenters |-> m_InstanceCenters, m_InstancePhases |-> m_InstancePhases,
     m_InstanceWorlds |-> m_InstanceWorlds, m_PathTime |-> m_PathTime,
     m_Camera |-> m_Camera, m_WorldViewProj |-> m_WorldViewProj,
     m_VSConstants |-> m_VSConstants, m_SkyCB |-> m_SkyCB,
     ctxState |-> ctxState, cmdLog |-> cmdLog, genCalls |-> genCalls,
     worldsGen |-> worldsGen, updateCount |-> updateCount,
     renderCount |-> renderCount,
     elapsedSum |-> elapsedSum, lastOp |-> lastOp, backend |-> backend,
     objects |-> objects, shaderVars |-> shaderVars, initLog |-> initLog,
     kin |-> kin, mesh |-> mesh,
     fault |-> NoFault, halted |-> FALSE]

Becomes(s) ==
    /\ phase' = s.phase
    /\ m_InstanceCount' = s.m_InstanceCount
    /\ m_InstanceCenters' = s.m_InstanceCenters
    /\ m_InstancePhases' = s.m_InstancePhases
    /\ m_InstanceWorlds' = s.m_InstanceWorlds
    /\ m_PathTime' = s.m_PathTime
    /\ m_Camera' = s.m_Camera
    /\ m_WorldViewProj' = s.m_WorldViewProj
    /\ m_VSConstants' = s.m_VSConstants
    /\ m_SkyCB' = s.m_SkyCB
    /\ ctxState' = s.ctxState
    /\ cmdLog' = s.cmdLog
    /\ genCalls' = s.genCalls
    /\ worldsGen' = s.worldsGen
    /\ updateCount' = s.updateCount
    /\ renderCount' = s.renderCount
    /\ elapsedSum' = s.elapsedSum
    /\ lastOp' = s.lastOp
    /\ backend' = s.backend
    /\ objects' = s.objects
    /\ shaderVars' = s.shaderVars
    /\ initLog' = s.initLog
    /\ kin' = s.kin
    /\ mesh' = s.mesh

(* ------------------------- kinematic model ----------------------------- *)
\* theta = m_InstancePhases[i] + Time * kSpeed, in units of 1 / kSpeedDen
Theta(ph, Time) == kSpeedDen * ph + kSpeedNum * Time

\* bobPhase = Time * kBobFreq * 2 * PI, in units of 2 * PI / kBobFreqDen
BobPhase(Time) == kBobFreqNum * Time

\* MakeWorld({x, y, z}, forward, {0, 1, 0}) of one instance: x, z and forward
\* are functions of C and theta, y of C and bobPhase
InstanceWorld(C, ph, Time) ==
    [center |-> C, theta |-> Theta(ph, Time), bobPhase |-> BobPhase(Time)]

\* the loop of GenerateInstanceData: one push_back per index i < m_InstanceCount
RECURSIVE PushWorlds(_, _, _)
PushWorlds(s, i, Time) ==
    IF i >= s.m_InstanceCount THEN s
    ELSE PushWorlds(
           [s EXCEPT !.m_InstanceWorlds =
               Append(@, InstanceWorld(s.m_InstanceCenters[i + 1],
                                       s.m_InstancePhases[i + 1], Time))],
           i + 1, Time)

\* mutant: the vector is not cleared, the loop appends to the old transforms
GenerateInstanceData_NoClear(s, Time) ==
    PushWorlds([s EXCEPT !.genCalls = @ + 1, !.worldsGen = s.genCalls + 1], 0, Time)

\* mutant: the orbit angle is integrated into the stored phase
GenerateInstanceData_IntegratesPhase(s, Time) ==
    LET s1 == PushWorlds([s EXCEPT !.m_InstanceWorlds = <<>>,
                                   !.genCalls = @ + 1,
                                   !.worldsGen = s.genCalls + 1],
                         0, Time)
    IN  [s1 EXCEPT !.m_InstancePhases =
            [i \in DOMAIN s.m_InstancePhases |-> s.m_InstancePhases[i] + Time]]

\* GenerateInstanceData(Time): m_InstanceWorlds.clear(), then the loop
GenerateInstanceData(s, Time) ==
    PushWorlds([s EXCEPT !.m_InstanceWorlds = <<>>,
                         !.genCalls = @ + 1,
                         !.worldsGen = s.genCalls + 1],
               0, Time)

\* wingAng = sin(m_PathTime * 2 * PI * kWingFactor) * kWingAmp, kept as the
\* argument of the sine in units of 2 * PI
WingAngle(Time) == kWingFactor * Time

(* --------------------------- dynamic buffers --------------------------- *)
\* A USAGE_DYNAMIC buffer: whether a CPU view is mapped, what the view holds,
\* and what the buffer held when its latest view was released.
\* A record of VSConstants names the fields that were assigned and the
\* Render and instance that assigned them (src).
UndefWorld == [center |-> <<0, 0, 0>>, theta |-> -1, bobPhase |-> -1]
UndefVS ==
    [WorldViewProj |-> MatMul(UndefWorld, NullMatrix), WingAngle |-> -1,
     written |-> {}, src |-> [frame |-> 0, inst |-> -1]]
UndefSky ==
    [m |-> [rot |-> -1, proj |-> -1], written |-> {}, src |-> [frame |-> 0, inst |-> -1]]

\* CreateBuffer(CBDesc, nullptr, &buffer): no initial data
NewBuffer(undef) == [mapped |-> FALSE, view |-> undef, gpu |-> undef]

\* MapHelper constructor with MAP_WRITE, MAP_FLAG_DISCARD: a fresh view whose
\* contents are undefined
MapDiscard(buf, undef) == [buf EXCEPT !.mapped = TRUE, !.view = undef]

\* MapHelper destructor: Unmap publishes the view
Unmap(buf) == [buf EXCEPT !.mapped = FALSE, !.gpu = buf.view]

\* What a draw reads from a constant buffer.  Drawing from a buffer whose view
\* is still mapped is an error of the graphics API: depending on the backend
\* the draw reads the view just written or the contents last released.
DrawReads(buf, onMapped) ==
    IF buf.mapped /\ onMapped = "view" THEN buf.view ELSE buf.gpu

\* struct VSConstants: the fields in order, with their sizes in bytes
VSConstantsLayout ==
    <<[name |-> "WorldViewProj", bytes |-> 64],
      [name |-> "WingAngle", bytes |-> 4],
      [name |-> "_Padding", bytes |-> 12]>>
\* cbuffer Constants of the vertex shader: the members in order
CBufferLayout ==
    <<[name |-> "g_WorldViewProj", bytes |-> 64],
      [name |-> "g_WingAngle", bytes |-> 4]>>

\* the bytes of the first k fields of a layout
RECURSIVE BytesBefore(_, _)
BytesBefore(layout, k) ==
    IF k = 0 THEN 0 ELSE BytesBefore(layout, k - 1) + layout[k].bytes
\* sizeof
SizeOf(layout) == BytesBefore(layout, Len(layout))

\* the fields of VSConstants the shader reads: those that begin within the
\* bytes the cbuffer declares
ShaderVisibleFields ==
    {VSConstantsLayout[k].name : k \in {j \in DOMAIN VSConstantsLayout :
        BytesBefore(VSConstantsLayout, j - 1) < SizeOf(CBufferLayout)}}

(* --------------------------- device context ---------------------------- *)
\* every call on m_pImmediateContext is recorded with the bindings and the
\* mapped views at the time of the call
Bindings(s) ==
    [pso |-> s.ctxState.pso, srb |-> s.ctxState.srb,
     vb |-> s.ctxState.vb, ib |-> s.ctxState.ib,
     vsMapped |-> s.m_VSConstants.mapped, skyMapped |-> s.m_SkyCB.mapped]

Emit(s, op, arg) ==
    [s EXCEPT !.cmdLog = Append(@, [op |-> op, ctx |-> Bindings(s), arg |-> arg])]

ClearRenderTarget(s) == Emit(s, "ClearRenderTarget", 0)
ClearDepthStencil(s) == Emit(s, "ClearDepthStencil", 0)
SetPipelineState(s, pso) ==
    Emit([s EXCEPT !.ctxState.pso = pso], "SetPipelineState", pso)
CommitShaderResources(s, srb) ==
    Emit([s EXCEPT !.ctxState.srb = srb], "CommitShaderResources", srb)
SetVertexBuffers(s, vb) ==
    Emit([s EXCEPT !.ctxState.vb = vb], "SetVertexBuffers", vb)
SetIndexBuffer(s, ib) ==
    Emit([s EXCEPT !.ctxState.ib = ib], "SetIndexBuffer", ib)

MapSky(s) == Emit([s EXCEPT !.m_SkyCB = MapDiscard(@, UndefSky)], "Map", "m_SkyCB")
UnmapSky(s) == Emit([s EXCEPT !.m_SkyCB = Unmap(@)], "Unmap", "m_SkyCB")
MapVS(s) ==
    Emit([s EXCEPT !.m_VSConstants = MapDiscard(@, UndefVS)], "Map", "m_VSConstants")
UnmapVS(s) == Emit([s EXCEPT !.m_VSConstants = Unmap(@)], "Unmap", "m_VSConstants")

\* *CB = InvRotProj
WriteSky(s, m) ==
    Emit([s EXCEPT !.m_SkyCB.view =
             [m |-> m, written |-> {"g_ViewProjInv"},
              src |-> [frame |-> s.renderCount, inst |-> -1]]],
         "Write", [buf |-> "m_SkyCB", field |-> "g_ViewProjInv", inst |-> -1,
                   value |-> m])

\* CB->WorldViewProj = wvp
WriteWorldViewProj(s, wvp, i) ==
    Emit([s EXCEPT !.m_VSConstants.view.WorldViewProj = wvp,
                   !.m_VSConstants.view.written = @ \cup {"WorldViewProj"},
                   !.m_VSConstants.view.src = [frame |-> s.renderCount, inst |-> i]],
         "Write", [buf |-> "m_VSConstants", field |-> "WorldViewProj", inst |-> i,
                   value |-> wvp])

\* CB->WingAngle = wingAng
WriteWingAngle(s, ang, i) ==
    Emit([s EXCEPT !.m_VSConstants.view.WingAngle = ang,
                   !.m_VSConstants.view.written = @ \cup {"WingAngle"},
                   !.m_VSConstants.view.src = [frame |-> s.renderCount, inst |-> i]],
         "Write", [buf |-> "m_VSConstants", field |-> "WingAngle", inst |-> i,
                   value |-> ang])

\* the end of a handler by an exception or by a crash
Halt(s, how) == [s EXCEPT !.halted = TRUE, !.phase = how]

\* the draw for instance i (-1: the background) is the call the device fails
DrawFails(s, i) == s.fault.kind = "draw" /\ s.fault.at = i

\* a draw returns nothing: a failed draw either throws out of the handler or
\* reports the error to the device's log and returns
AfterDraw(s, i) ==
    IF DrawFails(s, i) /\ s.fault.mode = "throw" THEN Halt(s, "failed") ELSE s

\* m_pImmediateContext->Draw(DA)
Draw(s, n) ==
    AfterDraw(Emit(s, "Draw", [n |-> n, reads |-> DrawReads(s.m_SkyCB, s.backend),
                               failed |-> DrawFails(s, -1)]), -1)

\* m_pImmediateContext->DrawIndexed(Attribs)
DrawIndexed(s, i) ==
    AfterDraw(Emit(s, "DrawIndexed",
                   [inst |-> i, worldsGen |-> s.worldsGen,
                    reads |-> DrawReads(s.m_VSConstants, s.backend),
                    failed |-> DrawFails(s, i)]), i)

(* ------------------------------ Render --------------------------------- *)
\* mutant: the mapping lives on after the loop body
InstanceStep_NoUnmap(s, i, wingAng) ==
    LET wvp == MatMul(s.m_InstanceWorlds[i + 1], s.m_WorldViewProj)
        s1  == MapVS(s)
        s2  == WriteWorldViewProj(s1, wvp, i)
        s3  == WriteWingAngle(s2, wingAng, i)
    IN  DrawIndexed(s3, i)

\* mutant: the wing angle is not written
InstanceStep_NoWingAngle(s, i, wingAng) ==
    LET wvp == MatMul(s.m_InstanceWorlds[i + 1], s.m_WorldViewProj)
        s1  == MapVS(s)
        s2  == WriteWorldViewProj(s1, wvp, i)
        s3  == DrawIndexed(s2, i)
    IN  UnmapVS(s3)

\* mutant: every instance flaps with its own phase added to the frame's angle
InstanceStep_OwnWingPhase(s, i, wingAng) ==
    LET wvp == MatMul(s.m_InstanceWorlds[i + 1], s.m_WorldViewProj)
        s1  == MapVS(s)
        s2  == WriteWorldViewProj(s1, wvp, i)
        s3  == WriteWingAngle(s2, wingAng + kWingFactor * s.m_InstancePhases[i + 1], i)
        s4  == DrawIndexed(s3, i)
    IN  UnmapVS(s4)

\* one pass of the loop of DrawButterflies.  CB lives to the end of the loop
\* body, so its destructor unmaps after DrawIndexed.
InstanceStep(s, i, wingAng) ==
    LET wvp == MatMul(s.m_InstanceWorlds[i + 1], s.m_WorldViewProj)
        s1  == MapVS(s)
        s2  == WriteWorldViewProj(s1, wvp, i)
        s3  == WriteWingAngle(s2, wingAng, i)
        s4  == DrawIndexed(s3, i)
    IN  UnmapVS(s4)

RECURSIVE DrawLoop(_, _, _)
DrawLoop(s, i, wingAng) ==
    IF s.halted \/ i >= Len(s.m_InstanceWorlds) THEN s
    ELSE DrawLoop(InstanceStep(s, i, wingAng), i + 1, wingAng)

\* mutant: the loop starts at the second instance
DrawButterflies_FromOne(s) ==
    DrawLoop(s, 1, WingAngle(s.m_PathTime))

\* mutant: an empty pool still gets one indexed draw, with the constants of
\* no instance
DrawButterflies_AtLeastOne(s) ==
    IF Len(s.m_InstanceWorlds) = 0
    THEN UnmapVS(DrawIndexed(WriteWingAngle(MapVS(s), WingAngle(s.m_PathTime), 0), 0))
    ELSE DrawLoop(s, 0, WingAngle(s.m_PathTime))

\* mutant: drawing the instances moves the clock on by one tick
DrawButterflies_TicksClock(s) ==
    [DrawLoop(s, 0, WingAngle(s.m_PathTime)) EXCEPT !.m_PathTime = @ + 1]

DrawButterflies(s) ==
    DrawLoop(s, 0, WingAngle(s.m_PathTime))

\* step 2 of Render
ClearTargets(s) == ClearDepthStencil(ClearRenderTarget(s))

\* step 3 of Render.  CB lives to the end of the block, so its destructor
\* unmaps after Draw.
SkyPass(s) ==
    LET s1 == MapSky(s)
        s2 == WriteSky(s1, InvRotProj(s.m_Camera))
        s3 == SetPipelineState(s2, "m_SkyPSO")
        s4 == CommitShaderResources(s3, "m_SkySRB")
        s5 == Draw(s4, SkyNumVertices)
    IN  UnmapSky(s5)

\* mutant: the instanced pipeline is set but its SRB is not committed
BindMesh_NoCommit(s) ==
    LET s1 == SetVertexBuffers(s, "m_ButterflyVertexBuffer")
        s2 == SetIndexBuffer(s1, "m_ButterflyIndexBuffer")
    IN  SetPipelineState(s2, "m_pPSO")

\* step 4 of Render up to the call of DrawButterflies
BindMesh(s) ==
    IF s.halted THEN s ELSE
    LET s1 == SetVertexBuffers(s, "m_ButterflyVertexBuffer")
        s2 == SetIndexBuffer(s1, "m_ButterflyIndexBuffer")
        s3 == SetPipelineState(s2, "m_pPSO")
    IN  CommitShaderResources(s3, "m_SRB")

\* mutant: the background pass is recorded after the mesh bindings
RenderBody_SkyAfterBind(s) ==
    DrawButterflies(SkyPass(BindMesh(ClearTargets(s))))

\* Render()
RenderBody(s) ==
    DrawButterflies(BindMesh(SkyPass(ClearTargets(s))))

(* ------------------------------ Update --------------------------------- *)
\* mutant: the transforms are regenerated before the clock is advanced
UpdateBody_GenerateBeforeAdvance(s, ElapsedTime, view) ==
    LET s1 == [s EXCEPT !.m_Camera.view = view]
        s2 == GenerateInstanceData(s1, s1.m_PathTime)
        s3 == [s2 EXCEPT !.m_PathTime = AdvancePathTime(@, ElapsedTime)]
    IN  [s3 EXCEPT !.m_WorldViewProj = ViewProj(s3.m_Camera)]

\* Update(CurrTime, ElapsedTime) with the pose m_Camera.Update arrives at
UpdateBody(s, ElapsedTime, view) ==
    LET s1 == [s EXCEPT !.m_Camera.view = view]
        s2 == [s1 EXCEPT !.m_PathTime = AdvancePathTime(@, ElapsedTime)]
        s3 == GenerateInstanceData(s2, s2.m_PathTime)
    IN  [s3 EXCEPT !.m_WorldViewProj = ViewProj(s3.m_Camera)]

(* --------------------------- WindowResize ------------------------------ *)
\* WindowResize(W, H): m_Camera.SetProjAttribs with the aspect ratio W / H
WindowResizeBody(s, aspect) == [s EXCEPT !.m_Camera.proj = aspect]

(* ---------------------------- Initialize ------------------------------- *)
\* InitInstanceData(): clear both vectors, then m_InstanceCount draws from the
\* random generator; the draws are centers and phases
RECURSIVE PushSeeds(_, _, _)
PushSeeds(s, i, draws) ==
    IF i >= s.m_InstanceCount THEN s
    ELSE PushSeeds([s EXCEPT !.m_InstanceCenters = Append(@, draws[i + 1].center),
                             !.m_InstancePhases = Append(@, draws[i + 1].phase)],
                   i + 1, draws)

InitInstanceData(s, draws) ==
    PushSeeds([s EXCEPT !.m_InstanceCenters = <<>>, !.m_InstancePhases = <<>>], 0, draws)

(* --------------------------- object setup ------------------------------ *)
\* the pointers of the sample: members, and locals of the setup methods
Pointers ==
    {"pVS", "m_VSConstants", "pPS", "m_pPSO", "m_SRB",
     "m_ButterflyVertexBuffer", "m_ButterflyIndexBuffer",
     "Tex", "m_TextureSRV",
     "m_SkyCB", "SkyTex", "m_SkySRV", "vs", "ps", "m_SkyPSO", "m_SkySRB"}
\* the shader variables set by name
ShaderVarNames == {"Constants", "CB", "g_Texture", "g_SkyTex"}

Record(s, op, target, uses, failed) ==
    [s EXCEPT !.initLog = Append(@, [op |-> op, target |-> target, uses |-> uses,
                                     nullUse |-> {u \in uses : s.objects[u] = "null"},
                                     failed |-> failed])]

\* m_pDevice->CreateShader / CreateBuffer / CreateGraphicsPipelineState and
\* CreateTextureFromFile: the object is stored through the out parameter
\* target; the call fails when the device fails or is handed a null object
Create(s, op, target, uses) ==
    IF s.halted THEN s
    ELSE LET fails == \/ (s.fault.kind = "create" /\ s.fault.at = target)
                      \/ \E u \in uses : s.objects[u] = "null"
             s1    == Record(s, op, target, uses, fails)
         IN  IF ~fails THEN [s1 EXCEPT !.objects[target] = target]
             ELSE IF s.fault.mode = "throw" THEN Halt(s1, "failed")
             ELSE [s1 EXCEPT !.objects[target] = "null"]

\* a method call through ptr with the arguments uses; done is the state
\* after the call when ptr refers to an object
CallThrough(s, op, ptr, target, uses, done) ==
    IF s.halted THEN s
    ELSE LET s1 == Record(s, op, target, {ptr} \cup uses, s.objects[ptr] = "null")
         IN  IF s.objects[ptr] # "null"
             THEN [s1 EXCEPT !.objects = done.objects, !.shaderVars = done.shaderVars]
             ELSE IF s.fault.ub = "crash" THEN Halt(s1, "crashed")
             ELSE s1

\* pso->GetStaticVariableByName(SHADER_TYPE_VERTEX, var)->Set(buf)
SetStaticVariable(s, pso, var, buf) ==
    CallThrough(s, "SetStaticVariable", pso, var, {buf},
                [s EXCEPT !.shaderVars[var] = s.objects[buf]])

\* pso->CreateShaderResourceBinding(&srb, true)
CreateShaderResourceBinding(s, pso, srb) ==
    CallThrough(s, "CreateShaderResourceBinding", pso, srb, {},
                [s EXCEPT !.objects[srb] = srb])

\* srv = tex->GetDefaultView(TEXTURE_VIEW_SHADER_RESOURCE)
GetDefaultView(s, tex, srv) ==
    CallThrough(s, "GetDefaultView", tex, srv, {},
                [s EXCEPT !.objects[srv] = srv])

\* srb->GetVariableByName(SHADER_TYPE_PIXEL, var)->Set(srv)
SetVariable(s, srb, var, srv) ==
    CallThrough(s, "SetVariable", srb, var, {srv},
                [s EXCEPT !.shaderVars[var] = s.objects[srv]])

\* a created dynamic buffer holds no data yet
WithBuffers(s) ==
    [s EXCEPT !.m_VSConstants =
                  IF s.objects["m_VSConstants"] = "null" THEN @ ELSE NewBuffer(UndefVS),
              !.m_SkyCB =
                  IF s.objects["m_SkyCB"] = "null" THEN @ ELSE NewBuffer(UndefSky)]

\* CreatePipelineState creating the SRB before the static buffer is set
CreatePipelineState_SetAfterBinding(s) ==
    LET s1 == Create(s, "CreateShader", "pVS", {})
        s2 == WithBuffers(Create(s1, "CreateBuffer", "m_VSConstants", {}))
        s3 == Create(s2, "CreateShader", "pPS", {})
        s4 == Create(s3, "CreateGraphicsPipelineState", "m_pPSO", {"pVS", "pPS"})
        s5 == CreateShaderResourceBinding(s4, "m_pPSO", "m_SRB")
    IN  SetStaticVariable(s5, "m_pPSO", "Constants", "m_VSConstants")

CreatePipelineState(s) ==
    LET s1 == Create(s, "CreateShader", "pVS", {})
        s2 == WithBuffers(Create(s1, "CreateBuffer", "m_VSConstants", {}))
        s3 == Create(s2, "CreateShader", "pPS", {})
        s4 == Create(s3, "CreateGraphicsPipelineState", "m_pPSO", {"pVS", "pPS"})
        s5 == SetStaticVariable(s4, "m_pPSO", "Constants", "m_VSConstants")
    IN  CreateShaderResourceBinding(s5, "m_pPSO", "m_SRB")

CreateVertexBuffer(s) == Create(s, "CreateBuffer", "m_ButterflyVertexBuffer", {})

CreateIndexBuffer(s) == Create(s, "CreateBuffer", "m_ButterflyIndexBuffer", {})

\* LoadTexture that obtains the view and never sets g_Texture
LoadTexture_NoSet(s) ==
    LET s1 == Create(s, "CreateTextureFromFile", "Tex", {})
    IN  GetDefaultView(s1, "Tex", "m_TextureSRV")

LoadTexture(s) ==
    LET s1 == Create(s, "CreateTextureFromFile", "Tex", {})
        s2 == GetDefaultView(s1, "Tex", "m_TextureSRV")
    IN  SetVariable(s2, "m_SRB", "g_Texture", "m_TextureSRV")

CreateSkySphere(s) ==
    LET s1 == WithBuffers(Create(s, "CreateBuffer", "m_SkyCB", {}))
        s2 == Create(s1, "CreateTextureFromFile", "SkyTex", {})
        s3 == GetDefaultView(s2, "SkyTex", "m_SkySRV")
        s4 == Create(s3, "CreateShader", "vs", {})
        s5 == Create(s4, "CreateShader", "ps", {})
        s6 == Create(s5, "CreateGraphicsPipelineState", "m_SkyPSO", {"vs", "ps"})
        s7 == SetStaticVariable(s6, "m_SkyPSO", "CB", "m_SkyCB")
        s8 == CreateShaderResourceBinding(s7, "m_SkyPSO", "m_SkySRB")
    IN  SetVariable(s8, "m_SkySRB", "g_SkyTex", "m_SkySRV")

\* Initialize(InitInfo) on a swap chain of the given aspect ratio
InitializeBody(s, aspect, draws) ==
    LET s1 == [s EXCEPT !.m_Camera = [view |-> [rot |-> 0, pos |-> 0], proj |-> aspect]]
        s2 == CreateSkySphere(LoadTexture(CreateIndexBuffer(CreateVertexBuffer(
                  CreatePipelineState(s1)))))
        s3 == InitInstanceData(s2, draws)
        s4 == GenerateInstanceData(s3, 0)
    IN  IF s2.halted THEN s2
        ELSE [s4 EXCEPT !.phase = IF \E p \in Pointers : s4.objects[p] = "null"
                                  THEN "degraded" ELSE "initialized"]

(* ------------------------------ actions -------------------------------- *)
Init ==
    /\ phase = "constructed"
    /\ m_InstanceCount \in 0..MaxInstances
    /\ m_InstanceCenters = <<>>
    /\ m_InstancePhases = <<>>
    /\ m_InstanceWorlds = <<>>
    /\ m_PathTime = 0
    /\ m_Camera = [view |-> [rot |-> 0, pos |-> 0], proj |-> 0]
    /\ m_WorldViewProj = NullMatrix
    /\ m_VSConstants = NewBuffer(UndefVS)
    /\ m_SkyCB = NewBuffer(UndefSky)
    /\ ctxState = [pso |-> "none", srb |-> "none", vb |-> "none", ib |-> "none"]
    /\ cmdLog = <<>>
    /\ genCalls = 0
    /\ worldsGen = 0
    /\ updateCount = 0
    /\ renderCount = 0
    /\ elapsedSum = 0
    /\ lastOp = "none"
    /\ objects = [p \in Pointers |-> "null"]
    /\ shaderVars = [v \in ShaderVarNames |-> "unset"]
    /\ initLog = <<>>
    /\ backend \in BackendSet
    /\ kin = NoKin
    /\ mesh = NoMesh

Initialize ==
    /\ phase = "constructed"
    /\ \E aspect \in AspectSet, draws \in [1..m_InstanceCount -> SeedSet] :
         Becomes([InitializeBody(Self, aspect, draws) EXCEPT !.lastOp = "Initialize"])

Update ==
    /\ phase = "initialized"
    /\ updateCount < MaxUpdates
    /\ \E e \in ElapsedSet, view \in ViewSet :
         Becomes([UpdateBody(Self, e, view) EXCEPT
                     !.updateCount = @ + 1,
                     !.elapsedSum = @ + e,
                     !.lastOp = "Update"])

Render ==
    /\ phase = "initialized"
    /\ renderCount < MaxRenders
    /\ Becomes([RenderBody([Self EXCEPT !.cmdLog = <<>>, !.renderCount = @ + 1])
                    EXCEPT !.lastOp = "Render"])

WindowResize ==
    /\ phase = "initialized"
    /\ \E aspect \in AspectSet :
         Becomes([WindowResizeBody(Self, aspect) EXCEPT !.lastOp = "WindowResize"])

Next == Initialize \/ Update \/ Render \/ WindowResize

Spec == Init /\ [][Next]_vars

(* ----------------------- handlers on a failing device ------------------ *)
\* the creations of Initialize that may fail: a shader, a pipeline state, a
\* texture and a buffer
CreateFaultSet ==
    {[kind |-> "create", at |-> p, mode |-> m, ub |-> u] :
        p \in {"pVS", "m_pPSO", "Tex", "m_SkyCB"},
        m \in {"throw", "return"}, u \in {"crash", "goes on"}}

\* the draws of Render that may fail
DrawFaultSet ==
    {[kind |-> "draw", at |-> i, mode |-> m, ub |-> "crash"] :
        i \in -1 .. MaxInstances - 1, m \in {"throw", "return"}}

InitializeFaulty ==
    /\ phase = "constructed"
    /\ \E aspect \in AspectSet, draws \in [1..m_InstanceCount -> SeedSet],
          f \in CreateFaultSet :
         Becomes([InitializeBody([Self EXCEPT !.fault = f], aspect, draws)
                     EXCEPT !.lastOp = "Initialize"])

RenderFaulty ==
    /\ phase = "initialized"
    /\ renderCount < MaxRenders
    /\ \E f \in DrawFaultSet :
         /\ f.at < m_InstanceCount
         /\ Becomes([RenderBody([Self EXCEPT !.cmdLog = <<>>, !.renderCount = @ + 1,
                                             !.fault = f])
                         EXCEPT !.lastOp = "Render"])

NextFaults ==
    Initialize \/ InitializeFaulty \/ Update \/ Render \/ RenderFaulty \/ WindowResize

SpecFaults == Init /\ [][NextFaults]_vars

\* Initialize followed by Renders alone, on a device whose draws may fail
NextRender == Initialize \/ Render \/ RenderFaulty

SpecRender == Init /\ [][NextRender]_vars

(* ------------------------- the mesh and its draw ----------------------- *)
\* The mesh of the revision of the sample that holds its arrays inline: the
\* index array of CreateIndexBuffer, the number of elements of ButterflyVerts
\* and the NumIndices of the draw in Render.
Indices ==
    <<1, 0, 2, 2, 0, 3, 3, 0, 4, 4, 0, 5, 5, 0, 6, 6, 0, 7, 7, 0, 8, 8, 0, 9,
      9, 0, 10, 10, 0, 11, 11, 0, 12, 12, 0, 13, 13, 0, 14, 14, 0, 15, 15, 0,
      16, 16, 0, 1, 18, 17, 19, 19, 17, 20, 20, 17, 21, 21, 17, 22, 22, 17,
      23, 23, 17, 24, 24, 17, 25, 25, 17, 26, 26, 17, 27, 27, 17, 28, 28, 17,
      29, 29, 17, 30, 30, 17, 31, 31, 17, 32, 32, 17, 33, 33, 17, 34, 34, 17,
      35, 35, 17, 36, 36, 17, 18, 18, 17, 1, 38, 37, 39, 41, 40, 42, 44, 43,
      45, 46, 43, 47, 48, 43, 49, 50, 43, 44, 44, 43, 45, 46, 43, 47, 47, 43,
      48, 49, 43, 50, 50, 43, 44, 44, 43, 45, 45, 43, 46, 47, 43, 48, 51, 52,
      53, 53, 52, 54, 54, 52, 55, 55, 54, 56, 56, 55, 57, 57, 56, 58, 58, 57,
      59, 59, 58, 60, 60, 59, 61, 61, 60, 62, 64, 63, 65, 65, 63, 66, 66, 63,
      67, 67, 63, 68, 68, 63, 69, 69, 63, 70, 70, 63, 71, 71, 63, 72, 72, 63,
      73, 73, 63, 74, 74, 63, 75, 75, 63, 76, 76, 63, 77, 77, 63, 78, 78, 63,
      79, 79, 63, 80, 80, 63, 81, 81, 63, 64, 83, 82, 84, 84, 82, 85, 85, 82,
      86, 86, 82, 87, 87, 82, 88, 88, 82, 89, 89, 82, 90, 90, 82, 91, 91, 82,
      92, 92, 82, 93, 93, 82, 94, 94, 82, 95, 95, 82, 96, 96, 82, 97, 97, 82,
      98, 98, 82, 99, 99, 82, 100, 100, 82, 101, 101, 82, 102, 102, 82, 83>>
ButterflyVertsCount == 104
NumIndices == 10000
\* what the fetch of an index beyond the end of the index buffer yields: zero
\* on a device with bounds-checked buffer access, otherwise whatever follows
\* the buffer, here an index that names no vertex
OutOfBoundsSet == {0, ButterflyVertsCount}

\* m_pImmediateContext->DrawIndexed(DrawAttrs) with the index buffer bound
IssueIndexedDraw ==
    /\ ~mesh.drawn
    /\ Becomes([Self EXCEPT !.mesh.drawn = TRUE, !.mesh.request = NumIndices])

\* the device fetches the next of the requested indices from the index buffer
FetchIndex ==
    /\ mesh.drawn
    /\ mesh.fetched < mesh.request
    /\ LET k == mesh.fetched + 1
       IN  \E o \in OutOfBoundsSet :
             Becomes([Self EXCEPT
                 !.mesh.fetched = k,
                 !.mesh.inBounds = k <= Len(Indices),
                 !.mesh.index = IF k <= Len(Indices) THEN <<Indices[k]>> ELSE <<o>>])

InitMesh == Init /\ m_InstanceCount = 0 /\ backend = "view"

NextMesh == IssueIndexedDraw \/ FetchIndex

SpecMesh == InitMesh /\ [][NextMesh]_vars

(* ------------------------ kinematics in numbers ------------------------ *)
\* Exact rational arithmetic.  std::cos and std::sin are sampled at the angles
\* whose cosine and sine are both multiples of 1 / TrigDen, so that every
\* length the functions take is rational; the rounding of float operations
\* is not part of this arithmetic.
TrigDen == 65
kRadius == 6
kBobAmpNum == 1
kBobAmpDen == 4
kWingAmpNum == 3
kWingAmpDen == 5
\* the weights 0.6f and 0.4f of the two harmonics of the bob, in tenths
BobWeight1 == 6
BobWeight2 == 4
BobWeightDen == 10

Abs(n) == IF n < 0 THEN -n ELSE n

RECURSIVE GCD(_, _)
GCD(a, b) == IF b = 0 THEN Abs(a) ELSE GCD(Abs(b), Abs(a) % Abs(b))

\* the float3 (x / d, y / d, z / d) in lowest terms; d = 0 marks a vector with
\* no value (a division by a zero length)
Vec(x, y, z, d) ==
    LET g == GCD(GCD(GCD(x, y), z), d)
    IN  IF g = 0 THEN [x |-> 0, y |-> 0, z |-> 0, d |-> 0]
        ELSE [x |-> x \div g, y |-> y \div g, z |-> z \div g, d |-> d \div g]

\* the largest r with r * r <= q, searched between lo and hi
RECURSIVE SqrtBetween(_, _, _)
SqrtBetween(q, lo, hi) ==
    IF lo >= hi THEN lo
    ELSE LET mid == (lo + hi + 1) \div 2
         IN  IF mid * mid <= q THEN SqrtBetween(q, mid, hi)
             ELSE SqrtBetween(q, lo, mid - 1)

\* -v
neg(v) == [v EXCEPT !.x = -v.x, !.y = -v.y, !.z = -v.z]

\* dot(a, b) as the fraction n / d
dot(a, b) == [n |-> a.x * b.x + a.y * b.y + a.z * b.z, d |-> a.d * b.d]

\* cross(a, b)
cross(a, b) ==
    Vec(a.y * b.z - a.z * b.y, a.z * b.x - a.x * b.z, a.x * b.y - a.y * b.x,
        a.d * b.d)

\* normalize(v) = v / length(v)
normalize(v) ==
    LET q == v.x * v.x + v.y * v.y + v.z * v.z
        r == SqrtBetween(q, 0, Abs(v.x) + Abs(v.y) + Abs(v.z))
    IN  IF v.d = 0 \/ r * r # q THEN Vec(0, 0, 0, 0) ELSE Vec(v.x, v.y, v.z, r)

\* mutant: Y is taken as cross(X, Z)
MakeWorld_CrossXZ(Pos, Forward, Up) ==
    LET Z == normalize(neg(Forward))
        X == normalize(cross(Up, Z))
        Y == cross(X, Z)
    IN  [X |-> X, Y |-> Y, Z |-> Z, Pos |-> Pos]

\* MakeWorld(Pos, Forward, Up): the columns X, Y, Z of the rotation block and
\* the translation row
MakeWorld(Pos, Forward, Up) ==
    LET Z == normalize(neg(Forward))
        X == normalize(cross(Up, Z))
        Y == cross(Z, X)
    IN  [X |-> X, Y |-> Y, Z |-> Z, Pos |-> Pos]

\* row k of the float4x4 MakeWorld returns, without its fourth element: the
\* constructor takes the elements row by row
WorldRow(m, k) ==
    IF k = 1 THEN <<m.X.x * m.Y.d * m.Z.d, m.Y.x * m.X.d * m.Z.d, m.Z.x * m.X.d * m.Y.d>>
    ELSE IF k = 2
    THEN <<m.X.y * m.Y.d * m.Z.d, m.Y.y * m.X.d * m.Z.d, m.Z.y * m.X.d * m.Y.d>>
    ELSE <<m.X.z * m.Y.d * m.Z.d, m.Y.z * m.X.d * m.Z.d, m.Z.z * m.X.d * m.Y.d>>

\* mul(float4(v, 0), M) of the vertex shader for a direction v with whole
\* components: the row vector times the matrix, v.x * row 1 + v.y * row 2 +
\* v.z * row 3
MulRowVector(v, m) ==
    LET r1 == WorldRow(m, 1)
        r2 == WorldRow(m, 2)
        r3 == WorldRow(m, 3)
    IN  Vec(v[1] * r1[1] + v[2] * r2[1] + v[3] * r3[1],
            v[1] * r1[2] + v[2] * r2[2] + v[3] * r3[2],
            v[1] * r1[3] + v[2] * r2[3] + v[3] * r3[3],
            m.X.d * m.Y.d * m.Z.d)

\* mutant: both harmonics weigh 0.6
BobOffset_EqualWeights(s1, s2) ==
    [n |-> kBobAmpNum * (BobWeight1 * s1 + BobWeight1 * s2),
     d |-> kBobAmpDen * BobWeightDen * TrigDen]

\* bobOffset = kBobAmp * (0.6f * sin(bobPhase) + 0.4f * sin(bobPhase * 2.3f))
\* for the sines s1 / TrigDen and s2 / TrigDen, as the fraction n / d
BobOffset(s1, s2) ==
    [n |-> kBobAmpNum * (BobWeight1 * s1 + BobWeight2 * s2),
     d |-> kBobAmpDen * BobWeightDen * TrigDen]

\* mutant: x takes the sine and z the cosine
OrbitPosition_SineOnX(C, c, sn, bob) ==
    Vec(C[1] * TrigDen * bob.d + kRadius * sn * bob.d,
        C[2] * TrigDen * bob.d + bob.n * TrigDen,
        C[3] * TrigDen * bob.d + kRadius * c * bob.d,
        TrigDen * bob.d)

\* mutant: the bob offset is added to x as well as to y
OrbitPosition_BobOnX(C, c, sn, bob) ==
    Vec(C[1] * TrigDen * bob.d + kRadius * c * bob.d + bob.n * TrigDen,
        C[2] * TrigDen * bob.d + bob.n * TrigDen,
        C[3] * TrigDen * bob.d + kRadius * sn * bob.d,
        TrigDen * bob.d)

\* {x, y, z} of GenerateInstanceData for the center C, cos(theta) = c / TrigDen,
\* sin(theta) = sn / TrigDen and the bob offset
OrbitPosition(C, c, sn, bob) ==
    Vec(C[1] * TrigDen * bob.d + kRadius * c * bob.d,
        C[2] * TrigDen * bob.d + bob.n * TrigDen,
        C[3] * TrigDen * bob.d + kRadius * sn * bob.d,
        TrigDen * bob.d)

\* forward of GenerateInstanceData
Forward(c, sn) == normalize(Vec(-kRadius * sn, 0, kRadius * c, TrigDen))

\* one pass of the loop of GenerateInstanceData, in numbers
InstanceTransform(C, c, sn, s1, s2) ==
    LET bob == BobOffset(s1, s2)
        fwd == Forward(c, sn)
    IN  [bobOffset |-> bob, forward |-> fwd,
         m |-> MakeWorld(OrbitPosition(C, c, sn, bob), fwd, Vec(0, 1, 0, 1))]

\* mutant: the sine is scaled by kWingFactor
WingAng_ScaledByFactor(w) == [n |-> w * kWingFactor, d |-> TrigDen]

\* wingAng of DrawButterflies for sin(...) = w / TrigDen, as the fraction n / d
WingAng(w) == [n |-> w * kWingAmpNum, d |-> TrigDen * kWingAmpDen]

\* the points (cos, sin) * TrigDen of the sampled angles
UnitCircle ==
    {p \in (-TrigDen .. TrigDen) \X (-TrigDen .. TrigDen) :
        p[1] * p[1] + p[2] * p[2] = TrigDen * TrigDen}
\* the sampled sines of the bob and of the wing, times TrigDen
SineSet == {-TrigDen, -39, 0, 25, TrigDen}
\* the sampled clock values and seeds
TimeSet == {0, 1}

\* the samples: a seed, a clock value, and the values std::cos and std::sin
\* return for the three angles; an angle of 0 has cosine 1 and sine 0
KinInputs ==
    {i \in [seed : SeedSet, Time : TimeSet, pt : UnitCircle,
            s1 : SineSet, s2 : SineSet, w : SineSet] :
        /\ Theta(i.seed.phase, i.Time) = 0 => i.pt = <<TrigDen, 0>>
        /\ BobPhase(i.Time) = 0 => (i.s1 = 0 /\ i.s2 = 0)
        /\ WingAngle(i.Time) = 0 => i.w = 0}

\* a sample is drawn
Sample ==
    /\ kin.in = <<>>
    /\ \E i \in KinInputs : Becomes([Self EXCEPT !.kin.in = <<i>>])

\* GenerateInstanceData builds the transform of the sampled seed
ComputeTransform ==
    /\ kin.in # <<>> /\ kin.world = <<>>
    /\ LET i == kin.in[1]
       IN  Becomes([Self EXCEPT !.kin.world =
                       <<InstanceTransform(i.seed.center, i.pt[1], i.pt[2], i.s1, i.s2)>>])

\* DrawButterflies computes the wing angle of the sampled clock value
ComputeArticulation ==
    /\ kin.in # <<>> /\ kin.wing = <<>>
    /\ Becomes([Self EXCEPT !.kin.wing = <<WingAng(kin.in[1].w)>>])

\* (cos, sin) a quarter turn on: cos(a + pi/2) = -sin a, sin(a + pi/2) = cos a
QuarterTurn(p) == <<-p[2], p[1]>>
\* (cos, sin) of theta one orbit period later: theta = phase + Time * kSpeed
\* grows by 2 pi when Time grows by 2 pi / kSpeed
PeriodLater(p) == QuarterTurn(QuarterTurn(QuarterTurn(QuarterTurn(p))))
\* the sines of the bob one orbit period later: the bob has another period
LaterBobSet == {<<0, 0>>, <<TrigDen, -39>>}

\* GenerateInstanceData builds the transform of the sampled seed one orbit
\* period after the sampled clock value
ComputePeriodLater ==
    /\ kin.in # <<>> /\ kin.later = <<>>
    /\ \E b \in LaterBobSet :
         LET i == kin.in[1]
             q == PeriodLater(i.pt)
         IN  Becomes([Self EXCEPT !.kin.later =
                         <<InstanceTransform(i.seed.center, q[1], q[2], b[1], b[2])>>])

InitKin == Init /\ m_InstanceCount = 0 /\ backend = "view"

NextKin == Sample \/ ComputeTransform \/ ComputeArticulation \/ ComputePeriodLater

SpecKin == InitKin /\ [][NextKin]_vars

(* ------------------------- reading the log ----------------------------- *)
\* positions of the calls op(arg) in the latest Render
Calls(op, arg) == {k \in DOMAIN cmdLog : cmdLog[k].op = op /\ cmdLog[k].arg = arg}
\* positions of the calls of op, whatever the argument
CallsOf(op) == {k \in DOMAIN cmdLog : cmdLog[k].op = op}
\* positions of the writes to a buffer
WritesTo(buf) == {k \in CallsOf("Write") : cmdLog[k].arg.buf = buf}
\* the draws of the latest Render, in order
IndexedDraws == SelectSeq(cmdLog, LAMBDA e : e.op = "DrawIndexed")
DrawPositions == CallsOf("Draw") \cup CallsOf("DrawIndexed")
\* every position of A lies before every position of B
Before(A, B) == \A a \in A, b \in B : a < b
\* the record of VSConstants DrawButterflies writes for instance i in the
\* latest Render
RecordOf(i) ==
    [WorldViewProj |-> MatMul(m_InstanceWorlds[i + 1], m_WorldViewProj),
     WingAngle |-> WingAngle(m_PathTime),
     written |-> {"WorldViewProj", "WingAngle"},
     src |-> [frame |-> renderCount, inst |-> i]]

(* ------------------------------ claims --------------------------------- *)

\* C1: in every Render the i-th indexed draw reads exactly the constants
\* written for instance i by the write that immediately precedes it (the two
\* field assignments are the two calls before the draw), never the record of
\* another instance or of an earlier frame.
C1_DrawReadsItsOwnRecord ==
    lastOp = "Render" =>
        \A k \in CallsOf("DrawIndexed") :
            LET i == cmdLog[k].arg.inst
            IN  /\ cmdLog[k].arg.reads = RecordOf(i)
                /\ k - 1 \in WritesTo("m_VSConstants") /\ cmdLog[k - 1].arg.inst = i
                /\ k - 2 \in WritesTo("m_VSConstants") /\ cmdLog[k - 2].arg.inst = i

\* C2: at every Draw and DrawIndexed of a Render no constant buffer is still
\* mapped: each constant write has released its view before the draw.
C2_NoBufferMappedAtDraw ==
    \A k \in DrawPositions :
        ~cmdLog[k].ctx.vsMapped /\ ~cmdLog[k].ctx.skyMapped

\* C3: in every Render both clears precede the background draw; the
\* background constant write, SetPipelineState(sky) and
\* CommitShaderResources(sky SRB) precede the single 3-vertex background draw;
\* that draw precedes the binding of the mesh vertex and index buffers, of the
\* instanced pipeline and of its SRB; and those precede every instanced draw.
C3_FrameOrder ==
    renderCount > 0 =>
        LET sky     == CallsOf("Draw")
            clears  == Calls("ClearRenderTarget", 0) \cup Calls("ClearDepthStencil", 0)
            skySet  == WritesTo("m_SkyCB") \cup Calls("SetPipelineState", "m_SkyPSO")
                         \cup Calls("CommitShaderResources", "m_SkySRB")
            meshSet == Calls("SetVertexBuffers", "m_ButterflyVertexBuffer")
                         \cup Calls("SetIndexBuffer", "m_ButterflyIndexBuffer")
                         \cup Calls("SetPipelineState", "m_pPSO")
                         \cup Calls("CommitShaderResources", "m_SRB")
        IN  /\ Cardinality(sky) = 1
            /\ \A k \in sky : cmdLog[k].arg.n = 3
            /\ Cardinality(clears) = 2
            /\ Cardinality(skySet) = 3
            /\ Cardinality(meshSet) = 4
            /\ Before(clears, sky)
            /\ Before(skySet, sky)
            /\ Before(sky, meshSet)
            /\ Before(meshSet, CallsOf("DrawIndexed"))

\* the pipeline an SRB was created from (CreateShaderResourceBinding)
PipelineOf(srb) == IF srb = "m_SkySRB" THEN "m_SkyPSO"
                   ELSE IF srb = "m_SRB" THEN "m_pPSO" ELSE "unknown"

\* C4: at every draw of a Render the pipeline that is set is the one whose SRB
\* was committed last (sky PSO with sky SRB at the background draw, butterfly
\* PSO with butterfly SRB at every instanced draw), and that SRB was committed
\* earlier in the same Render.
C4_CommittedBeforeDraw ==
    \A k \in DrawPositions :
        LET e == cmdLog[k]
        IN  /\ e.ctx.pso = PipelineOf(e.ctx.srb)
            /\ e.ctx.pso = (IF e.op = "Draw" THEN "m_SkyPSO" ELSE "m_pPSO")
            /\ \E j \in Calls("CommitShaderResources", e.ctx.srb) :
                   /\ j < k
                   /\ \A m \in CallsOf("CommitShaderResources") \cup CallsOf("SetPipelineState") :
                          (j < m /\ m < k) => cmdLog[m].op = "SetPipelineState"
                                              /\ cmdLog[m].arg = e.ctx.pso

\* the calls of a Render that map the VS constants or draw indexed, in order
VSTraffic ==
    SelectSeq(cmdLog, LAMBDA e : e.op = "DrawIndexed"
                                   \/ (e.op = "Map" /\ e.arg = "m_VSConstants"))

\* C5: a Render visits the instances in pool order 0, 1, ..., N-1 and does for
\* each one constants write followed by one indexed draw: N indexed draws and
\* one non-indexed background draw.
C5_OneWriteOneDrawPerInstance ==
    renderCount > 0 =>
        /\ Len(IndexedDraws) = m_InstanceCount
        /\ \A j \in 1..Len(IndexedDraws) : IndexedDraws[j].arg.inst = j - 1
        /\ Cardinality(CallsOf("Draw")) = 1
        /\ Cardinality(DrawPositions) = 1 + m_InstanceCount
        /\ Len(VSTraffic) = 2 * m_InstanceCount
        /\ \A j \in 1..m_InstanceCount :
               /\ VSTraffic[2 * j - 1].op = "Map"
               /\ VSTraffic[2 * j].op = "DrawIndexed"
        /\ \A i \in 0..(m_InstanceCount - 1) :
               /\ Cardinality({k \in WritesTo("m_VSConstants") :
                      cmdLog[k].arg.inst = i /\ cmdLog[k].arg.field = "WorldViewProj"}) = 1
               /\ Cardinality({k \in WritesTo("m_VSConstants") :
                      cmdLog[k].arg.inst = i /\ cmdLog[k].arg.field = "WingAngle"}) = 1

\* C6: with no instance a Render issues the background draw and nothing for
\* the instanced pass: no indexed draw, no map of or write to the VS constants.
C6_EmptyPoolDrawsBackgroundOnly ==
    (m_InstanceCount = 0 /\ renderCount > 0) =>
        /\ Cardinality(CallsOf("Draw")) = 1
        /\ CallsOf("DrawIndexed") = {}
        /\ Calls("Map", "m_VSConstants") = {}
        /\ WritesTo("m_VSConstants") = {}
        /\ lastOp = "Render" => cmdLog[Len(cmdLog)].op = "CommitShaderResources"

\* C7: after every GenerateInstanceData the transform sequence has exactly
\* m_InstanceCount entries, also for 0 instances and after repeated
\* regenerations, and entry i is derived from seed i.
C7_WorldsLengthIsInstanceCount ==
    phase = "initialized" =>
        /\ Len(m_InstanceWorlds) = m_InstanceCount
        /\ \A i \in 1..Len(m_InstanceWorlds) :
               /\ m_InstanceWorlds[i].center = m_InstanceCenters[i]
               /\ m_InstanceWorlds[i].theta - kSpeedNum * m_PathTime
                      = kSpeedDen * m_InstancePhases[i]

\* C8: after Initialize there are exactly m_InstanceCount centers and
\* m_InstanceCount phases, and no later step changes either vector.
C8_SeedsNeverChange ==
    /\ [](phase = "initialized" =>
             /\ Len(m_InstanceCenters) = m_InstanceCount
             /\ Len(m_InstancePhases) = m_InstanceCount)
    /\ [][phase = "initialized" =>
             /\ m_InstanceCenters' = m_InstanceCenters
             /\ m_InstancePhases' = m_InstancePhases]_vars

\* C9: every Update calls GenerateInstanceData exactly once, with the clock as
\* it is after ElapsedTime was added; Render never calls it; and a Render that
\* follows an Update draws every instance with the transforms that Update
\* generated.
C9_RegenerateOncePerUpdate ==
    [][/\ updateCount' # updateCount =>
             /\ genCalls' = genCalls + 1
             /\ worldsGen' = genCalls'
             /\ \A i \in 1..m_InstanceCount :
                    m_InstanceWorlds'[i].bobPhase = BobPhase(m_PathTime')
       /\ renderCount' # renderCount =>
             /\ genCalls' = genCalls
             /\ m_InstanceWorlds' = m_InstanceWorlds
             /\ lastOp = "Update" =>
                    /\ worldsGen = updateCount + 1
                    /\ \A k \in DOMAIN cmdLog' :
                           cmdLog'[k].op = "DrawIndexed" =>
                               cmdLog'[k].arg.worldsGen = worldsGen
                    /\ \A k \in DOMAIN cmdLog' :
                           (cmdLog'[k].op = "Write" /\ cmdLog'[k].arg.field = "WorldViewProj") =>
                               cmdLog'[k + 2].op = "DrawIndexed"
      ]_vars

\* C10: every stored transform is the kinematic model of its seed at the
\* accumulated clock, and the clock, hence the transforms, depend on the
\* Update steps only through the sum of their elapsed times: the state equals
\* the one a single Update of the summed elapsed time arrives at.
C10_TransformsDependOnElapsedSumOnly ==
    phase = "initialized" =>
        \A i \in 1..Len(m_InstanceWorlds) :
            m_InstanceWorlds[i] =
                InstanceWorld(m_InstanceCenters[i], m_InstancePhases[i],
                              AdvancePathTime(0, elapsedSum))

(* ----------------------------- witnesses ------------------------------- *)
\* a Render of two instances with different seeds has drawn both
W3_RenderedTwoInstances ==
    /\ lastOp = "Render"
    /\ Len(IndexedDraws) = 2
    /\ m_InstanceCenters[1] # m_InstanceCenters[2]

\* a second Render, after an Update, has drawn the background and an instance
W4_SecondRenderDrew ==
    /\ renderCount = 2
    /\ updateCount > 0
    /\ CallsOf("Draw") # {}
    /\ CallsOf("DrawIndexed") # {}

\* a Render of a pool of MaxInstances instances has completed
W5_RenderedFullPool ==
    /\ lastOp = "Render"
    /\ m_InstanceCount = MaxInstances
    /\ Len(IndexedDraws) = MaxInstances

\* a Render of the empty pool has completed
W6_RenderedEmptyPool ==
    /\ m_InstanceCount = 0
    /\ lastOp = "Render"
    /\ cmdLog # <<>>

\* the pool of two instances has been regenerated twice after Initialize
W7_RegeneratedRepeatedly ==
    /\ m_InstanceCount = 2
    /\ genCalls = 3
    /\ m_PathTime > 0

\* seeds of two instances have lived through Update, Render and a
\* WindowResize that changed the projection
W8_SeedsSurvivedAllHandlers ==
    /\ m_InstanceCount = 2
    /\ updateCount > 0 /\ renderCount > 0
    /\ lastOp = "WindowResize" /\ m_WorldViewProj.proj # m_Camera.proj
    /\ m_InstancePhases = <<0, 1>>

\* a Render that directly follows the second Update has drawn an instance
W9_RenderAfterUpdate ==
    /\ lastOp = "Render"
    /\ updateCount = 2
    /\ \E k \in CallsOf("DrawIndexed") : cmdLog[k].arg.worldsGen = 3


(* ------------------------- setup log helpers --------------------------- *)
\* positions in the setup log of the calls of one kind on one target
InitPos(op, target) ==
    {k \in DOMAIN initLog : initLog[k].op = op /\ initLog[k].target = target}

\* the mutable texture variable of each pipeline
MutableTextures ==
    {[var |-> "g_Texture", srv |-> "m_TextureSRV", srb |-> "m_SRB", pso |-> "m_pPSO"],
     [var |-> "g_SkyTex", srv |-> "m_SkySRV", srb |-> "m_SkySRB", pso |-> "m_SkyPSO"]}

\* the static constant buffer variable of each pipeline
StaticBuffers ==
    {[var |-> "Constants", buf |-> "m_VSConstants", srb |-> "m_SRB", pso |-> "m_pPSO"],
     [var |-> "CB", buf |-> "m_SkyCB", srb |-> "m_SkySRB", pso |-> "m_SkyPSO"]}

\* C11: for each pipeline, Initialize sets the mutable texture variable on
\* the SRB exactly once, after the SRB was created from the created pipeline,
\* and both textures are bound once Initialize has returned, so that every
\* draw of a Render happens with both bound.
C11_TextureSetOnceAfterPipeline ==
    /\ phase = "constructed" => cmdLog = <<>>
    /\ phase = "initialized" =>
          \A t \in MutableTextures :
            /\ Cardinality(InitPos("SetVariable", t.var)) = 1
            /\ \A k \in InitPos("SetVariable", t.var) :
                  \E j \in InitPos("CreateShaderResourceBinding", t.srb) :
                    /\ j < k
                    /\ \E i \in InitPos("CreateGraphicsPipelineState", t.pso) : i < j
            /\ shaderVars[t.var] = t.srv

\* a Render after Initialize drew the background and an instance
W11_DrewWithTexturesBound ==
    /\ phase = "initialized"
    /\ CallsOf("Draw") # {} /\ IndexedDraws # <<>>
    /\ shaderVars["g_Texture"] = "m_TextureSRV"
    /\ shaderVars["g_SkyTex"] = "m_SkySRV"

\* C12: the constant buffer of each pipeline is bound to the pipeline's
\* static variable exactly once during Initialize, before the pipeline's SRB
\* is created, and no handler that runs afterwards changes the buffer bound
\* to a static variable or replaces m_VSConstants or m_SkyCB.
C12_StaticSetOnceNeverRebound ==
    /\ [](phase = "initialized" =>
            \A b \in StaticBuffers :
              /\ Cardinality(InitPos("SetStaticVariable", b.var)) = 1
              /\ \A k \in InitPos("SetStaticVariable", b.var) :
                    /\ \E i \in InitPos("CreateGraphicsPipelineState", b.pso) : i < k
                    /\ \A j \in InitPos("CreateShaderResourceBinding", b.srb) : k < j
              /\ InitPos("CreateShaderResourceBinding", b.srb) # {}
              /\ shaderVars[b.var] = b.buf)
    /\ [][phase = "initialized" =>
            \A b \in StaticBuffers :
              /\ shaderVars'[b.var] = shaderVars[b.var]
              /\ objects'[b.buf] = objects[b.buf]]_vars

\* every handler ran after Initialize with the static buffers still bound
W12_StaticsBoundAfterAllHandlers ==
    /\ phase = "initialized" /\ lastOp = "WindowResize"
    /\ updateCount = MaxUpdates /\ renderCount = MaxRenders
    /\ shaderVars["Constants"] = "m_VSConstants" /\ shaderVars["CB"] = "m_SkyCB"

\* positions of the writes of one field of VSConstants in the latest Render
FieldWrites(field) ==
    {k \in WritesTo("m_VSConstants") : cmdLog[k].arg.field = field}

\* C13: within one Render the WingAngle written for every instance is one
\* and the same value, the wing angle of the clock m_PathTime alone, and the
\* instance transforms the Render draws were generated from that same clock
\* value.
C13_OneWingAnglePerFrame ==
    (phase = "initialized" /\ lastOp = "Render") =>
        /\ \A k \in FieldWrites("WingAngle") :
              cmdLog[k].arg.value = WingAngle(m_PathTime)
        /\ \A j, k \in FieldWrites("WingAngle") :
              cmdLog[j].arg.value = cmdLog[k].arg.value
        /\ {cmdLog[k].arg.inst : k \in FieldWrites("WingAngle")} =
              0 .. m_InstanceCount - 1
        /\ \A i \in 1 .. m_InstanceCount :
              m_InstanceWorlds[i] =
                  InstanceWorld(m_InstanceCenters[i], m_InstancePhases[i], m_PathTime)

\* a Render at a later clock value drew two instances of different seeds
W13_TwoSeedsOneAngle ==
    /\ phase = "initialized" /\ lastOp = "Render"
    /\ m_PathTime > 0
    /\ Cardinality(FieldWrites("WingAngle")) = 2
    /\ m_InstancePhases[1] # m_InstancePhases[2]

\* a recorded call as it was issued: the operation and its arguments, with
\* the constants written, without what the device read at a draw
Command(e) ==
    [op  |-> e.op,
     arg |-> IF e.op = "Draw" THEN [n |-> e.arg.n]
             ELSE IF e.op = "DrawIndexed" THEN [inst |-> e.arg.inst]
             ELSE e.arg]
Commands(log) == [k \in DOMAIN log |-> Command(log[k])]

\* C16: a Render leaves the seeds, the instance transforms, m_PathTime, the
\* cached view-projection and the camera as they were, and a Render that
\* directly follows a Render issues the same commands with the same
\* constants.
C16_RenderKeepsFrameState ==
    [][(lastOp' = "Render" /\ renderCount' = renderCount + 1) =>
          /\ m_InstanceCenters' = m_InstanceCenters
          /\ m_InstancePhases' = m_InstancePhases
          /\ m_InstanceWorlds' = m_InstanceWorlds
          /\ m_PathTime' = m_PathTime
          /\ m_WorldViewProj' = m_WorldViewProj
          /\ m_Camera' = m_Camera
          /\ lastOp = "Render" => Commands(cmdLog') = Commands(cmdLog)]_vars

\* a second Render in a row that drew two instances at a later clock value
W16_RenderedTwiceInARow ==
    /\ lastOp = "Render" /\ renderCount = 2
    /\ updateCount = 1 /\ m_PathTime > 0
    /\ Len(IndexedDraws) = 2
    /\ \A k \in CallsOf("DrawIndexed") : cmdLog[k].arg.worldsGen = 2
    /\ m_WorldViewProj.proj = m_Camera.proj

\* the creating calls of Initialize
CreateOps ==
    {"CreateShader", "CreateBuffer", "CreateGraphicsPipelineState",
     "CreateTextureFromFile"}

\* positions in the setup log of the creations the device failed
FailedCreations ==
    {k \in DOMAIN initLog :
        initLog[k].op \in CreateOps /\ initLog[k].failed /\ initLog[k].nullUse = {}}

\* C14: a draw of Render that fails ends the Render with the failure
\* propagated, and no draw is issued after it.
C14_FailedDrawEndsRender ==
    \A k \in DrawPositions :
        cmdLog[k].arg.failed =>
            /\ phase = "failed"
            /\ \A j \in DrawPositions : j <= k

\* C15: a creation that yields no object is the last setup call Initialize
\* makes, and Initialize ends with the failure surfaced; it never returns
\* with an object missing.
C15_FailedCreationEndsInitialize ==
    /\ \A k \in FailedCreations : k = Len(initLog) /\ phase = "failed"
    /\ phase # "degraded"
    /\ \A k \in DOMAIN initLog : initLog[k].nullUse = {}

(* ------------------------- kinematic claims ---------------------------- *)
\* a fraction n / d with d > 0 that equals 1, or 0
IsOne(f) == f.d > 0 /\ f.n = f.d
IsZero(f) == f.d > 0 /\ f.n = 0

\* C17: the rotation block MakeWorld builds from the orbit tangent and the
\* up vector (0,1,0) is orthonormal and right-handed: X, Y and Z have unit
\* length, are mutually perpendicular, X x Y = Z and the determinant is 1;
\* every vector of the construction has a value, the tangent never being
\* parallel to up.
C17_RotationBlockOrthonormal ==
    kin.world # <<>> =>
        LET m   == kin.world[1].m
            fwd == kin.world[1].forward
        IN  /\ fwd.d > 0 /\ m.X.d > 0 /\ m.Y.d > 0 /\ m.Z.d > 0
            /\ IsOne(dot(fwd, fwd)) /\ IsZero(dot(fwd, Vec(0, 1, 0, 1)))
            /\ IsOne(dot(m.X, m.X)) /\ IsOne(dot(m.Y, m.Y)) /\ IsOne(dot(m.Z, m.Z))
            /\ IsZero(dot(m.X, m.Y)) /\ IsZero(dot(m.Y, m.Z)) /\ IsZero(dot(m.Z, m.X))
            /\ cross(m.X, m.Y) = m.Z
            /\ IsOne(dot(m.X, cross(m.Y, m.Z)))
            /\ m.Z = neg(fwd)

\* a transform was built at an angle off the axes
W17_BuiltOffAxis ==
    /\ kin.world # <<>>
    /\ kin.in[1].pt = <<-39, 52>>
    /\ kin.world[1].m.X = Vec(39, 0, -52, TrigDen)

\* C18: the bob offset kBobAmp * (0.6 * s1 + 0.4 * s2) lies in
\* [-kBobAmp, kBobAmp] for all sines s1 and s2, and the height y of the
\* transform lies in [center.y - kBobAmp, center.y + kBobAmp].
C18_BobWithinAmplitude ==
    /\ \A s1, s2 \in SineSet :
          Abs(BobWeight1 * s1 + BobWeight2 * s2) <= BobWeightDen * TrigDen
    /\ kin.world # <<>> =>
          LET bob == kin.world[1].bobOffset
              Pos == kin.world[1].m.Pos
              cy  == kin.in[1].seed.center[2]
          IN  /\ Abs(bob.n) * kBobAmpDen <= kBobAmpNum * bob.d
              /\ Abs(Pos.y - cy * Pos.d) * kBobAmpDen <= kBobAmpNum * Pos.d

\* a transform was built with both harmonics at their peak: the offset is
\* the whole amplitude
W18_BobAtAmplitude ==
    /\ kin.world # <<>>
    /\ kin.in[1].s1 = TrigDen /\ kin.in[1].s2 = TrigDen
    /\ kin.world[1].bobOffset.n * kBobAmpDen = kBobAmpNum * kin.world[1].bobOffset.d

\* C19: the wing angle computed from the clock is at most kWingAmp in
\* absolute value.
C19_WingWithinAmplitude ==
    kin.wing # <<>> =>
        Abs(kin.wing[1].n) * kWingAmpDen <= kWingAmpNum * kin.wing[1].d

\* a wing angle was computed at the trough of the sine
W19_WingAtTrough ==
    /\ kin.wing # <<>>
    /\ kin.in[1].w = -TrigDen
    /\ kin.wing[1].n * kWingAmpDen = -kWingAmpNum * kin.wing[1].d

\* C20: the translation of the transform is
\* center + kRadius * (cos th, 0, sin th) + (0, bobOffset, 0), and the seed
\* with center (0,0,0) and phase 0 at clock 0 is placed at (kRadius, 0, 0)
\* with forward (0, 0, 1).
C20_OrbitPosition ==
    kin.world # <<>> =>
        LET i   == kin.in[1]
            C   == i.seed.center
            Pos == kin.world[1].m.Pos
            bob == kin.world[1].bobOffset
        IN  /\ Pos.d > 0
            /\ Pos.x * TrigDen = (C[1] * TrigDen + kRadius * i.pt[1]) * Pos.d
            /\ Pos.y * bob.d = (C[2] * bob.d + bob.n) * Pos.d
            /\ Pos.z * TrigDen = (C[3] * TrigDen + kRadius * i.pt[2]) * Pos.d
            /\ (C = <<0, 0, 0>> /\ i.seed.phase = 0 /\ i.Time = 0) =>
                  /\ Pos = Vec(kRadius, 0, 0, 1)
                  /\ kin.world[1].forward = Vec(0, 0, 1, 1)

\* the transform of the seed at the origin with phase 0 was built at clock 0
W20_BuiltAtOrigin ==
    /\ kin.world # <<>>
    /\ kin.in[1].seed = [center |-> <<0, 0, 0>>, phase |-> 0]
    /\ kin.in[1].Time = 0
    /\ kin.world[1].m.Pos.x = kRadius

C26_LocalAxesMapToBasis ==
    kin.world # <<>> =>
        LET m == kin.world[1].m
        IN  /\ MulRowVector(<<1, 0, 0>>, m) = m.X
            /\ MulRowVector(<<0, 1, 0>>, m) = m.Y
            /\ MulRowVector(<<0, 0, 1>>, m) = m.Z
            /\ MulRowVector(<<0, 0, -1>>, m) = kin.world[1].forward

\* the last position of a set of positions
LastOf(S) == CHOOSE x \in S : \A y \in S : y <= x

\* the fields written between the latest discard of m_VSConstants before
\* position k and k
WrittenSinceDiscard(k) ==
    LET maps == {j \in Calls("Map", "m_VSConstants") : j < k}
    IN  IF maps = {} THEN {}
        ELSE {cmdLog[j].arg.field :
                 j \in {w \in WritesTo("m_VSConstants") : LastOf(maps) < w /\ w < k}}

\* C22: between the discard for an instance and the instance's draw every
\* field of the record the shader reads, WorldViewProj and WingAngle, is
\* assigned, and the size of the record is a multiple of 16 bytes.
C22_WholeRecordWritten ==
    /\ ShaderVisibleFields = {"WorldViewProj", "WingAngle"}
    /\ SizeOf(VSConstantsLayout) % 16 = 0
    /\ \A k \in CallsOf("DrawIndexed") :
          /\ \E j \in Calls("Map", "m_VSConstants") : j < k
          /\ ShaderVisibleFields \subseteq WrittenSinceDiscard(k)

\* a later Render discarded a record that held the previous frame's values
\* and drew two instances
W22_RewroteAfterDiscard ==
    /\ lastOp = "Render" /\ renderCount = 2
    /\ Len(IndexedDraws) = 2
    /\ \A k \in CallsOf("DrawIndexed") : WrittenSinceDiscard(k) = ShaderVisibleFields
    /\ m_VSConstants.gpu.src = [frame |-> 2, inst |-> 1]

\* C23: the WorldViewProj written for instance i in a Render is the
\* instance's world matrix times the view-projection of the camera as it is
\* at that Render, the camera the background pass of the same Render uses.
C23_WrittenWithCurrentCamera ==
    (phase = "initialized" /\ lastOp = "Render") =>
        /\ \A k \in FieldWrites("WorldViewProj") :
              cmdLog[k].arg.value =
                  MatMul(m_InstanceWorlds[cmdLog[k].arg.inst + 1], ViewProj(m_Camera))
        /\ \A k \in WritesTo("m_SkyCB") : cmdLog[k].arg.value = InvRotProj(m_Camera)

\* the mappings of a buffer acquired and not yet released after call k of
\* the latest Render
Outstanding(buf, k) ==
    Cardinality({j \in Calls("Map", buf) : j <= k})
        - Cardinality({j \in Calls("Unmap", buf) : j <= k})

\* C24: at every point of a Render at most one mapping of a constant buffer
\* is outstanding and none is released that was not acquired, every map has
\* its unmap, and no buffer is mapped once Render has returned or has been
\* left by a failure.
C24_MappingWithinWriteScope ==
    /\ ~m_VSConstants.mapped /\ ~m_SkyCB.mapped
    /\ \A buf \in {"m_VSConstants", "m_SkyCB"} :
          /\ \A k \in DOMAIN cmdLog : Outstanding(buf, k) \in {0, 1}
          /\ Cardinality(Calls("Map", buf)) = Cardinality(Calls("Unmap", buf))

\* a Render of two instances was left by the failure of its first indexed
\* draw, whose mapping was released on the way out
W24_LeftByFailedDraw ==
    /\ phase = "failed" /\ lastOp = "Render"
    /\ m_InstanceCount = 2
    /\ \E k \in CallsOf("DrawIndexed") : cmdLog[k].arg.failed
    /\ Cardinality(Calls("Unmap", "m_VSConstants")) = 1

\* C25: an indexed draw requests exactly the number of indices stored in
\* the bound index buffer, so that no fetch goes beyond its end, and every
\* index fetched names a vertex of the bound vertex buffer.
C25_DrawWithinIndexBuffer ==
    /\ \A k \in DOMAIN Indices : Indices[k] < ButterflyVertsCount
    /\ mesh.drawn => mesh.request = Len(Indices)
    /\ mesh.index # <<>> => (mesh.inBounds /\ mesh.index[1] < ButterflyVertsCount)

====
